---- MODULE Spec2Model ----
(***************************************************************************)
(* Model of the orthogonal-slice reader of tomolog-cli.                    *)
(*                                                                         *)
(* Two implementations of read_recon live in the repository:               *)
(*   "2bm"   TomoLog2BM.read_recon   src/tomolog_cli/tomolog_2bm.py:78-142 *)
(*   "reads" reads.read_recon        src/tomolog_cli/reads.py:70-152       *)
(* Both are driven by the batch loop of run_log                            *)
(* (src/src/tomolog_cli/__main__.py:49-94), which hands the same args      *)
(* object to every data file of a directory.                               *)
(*                                                                         *)
(* A reconstruction directory holds tiles recon_<5 digits>.<ext>; tile j   *)
(* is a rows x cols image whose pixel (r, c) is Pixel(j, r, c).            *)
(***************************************************************************)
EXTENDS Integers, Sequences, FiniteSets, TLC

\* ------------------------------------------------------------------ bounds
MaxFiles  == 2      \* data files one run_log batch processes
MaxTiles  == 3      \* span of tile suffixes of one reconstruction directory
MaxDim    == 2      \* largest tile extent (rows, columns)
MaxIndex  == 1      \* largest index the user requests

MaxWorkers == 2     \* run_tomolog_cli threads the GUI starts
MaxCount  == 2      \* largest file count entered in the GUI
MaxLogs   == 2      \* entries add_log keeps (50 in the source)
MaxCalls  == 4      \* add_log calls of one session

Sentinel == -1      \* "compute the default" value of args.idx/idy/idz

Impls      == {"2bm", "reads"}
ZStarts    == {0, 1}     \* first tile suffix: zero, non-zero
Exts       == {"tif", "tiff", "TIF"}
\* Tile shapes (rows, columns): the empty image and every non-empty shape.
Shapes     == {<<0, 0>>} \cup ((1..MaxDim) \X (1..MaxDim))
RawWidths  == {1, MaxDim, 2 * MaxDim}
IndexArgs  == {Sentinel} \cup (0..MaxIndex)
Requests   == [idx : IndexArgs, idy : IndexArgs, idz : IndexArgs]
Workers    == 1..MaxWorkers
\* The threads that call add_log: a run_tomolog_cli worker, a Dash callback.
LogThreads == {"worker", "callback"}

\* ------------------------------------------------------- file names, tiles
Pow10(n) == <<1, 10, 100, 1000, 10000>>[n + 1]

\* f'{j:05}': five zero-padded decimal digits (most significant first).
Fmt05(n) == [i \in 1..5 |-> (n \div Pow10(5 - i)) % 10]

\* int('00012'): the value of a digit string.
RECURSIVE ParseInt(_)
ParseInt(d) ==
    IF d = <<>> THEN 0
    ELSE 10 * ParseInt(SubSeq(d, 1, Len(d) - 1)) + d[Len(d)]

\* The file name f'{prefix}_{j:05}.{ext}', kept as its three parts.
TileName(prefix, n, ext) == [prefix |-> prefix, digits |-> Fmt05(n), ext |-> ext]

\* int(name.split('.')[0].split('_')[1])
ParseSuffix(name) == ParseInt(name.digits)

\* x.endswith(('.tif', '.tiff')): case-sensitive.
IsTiff(name) == name.ext \in {"tif", "tiff"}

\* Lexical order of digit strings of equal length.
RECURSIVE DigitsLess(_, _)
DigitsLess(a, b) ==
    IF a = <<>> \/ b = <<>> THEN FALSE
    ELSE IF a[1] # b[1] THEN a[1] < b[1]
    ELSE DigitsLess(Tail(a), Tail(b))

\* Python's string order on tile names of one directory (same prefix; "tif"
\* is a proper prefix of "tiff").
NameLess(a, b) ==
    \/ DigitsLess(a.digits, b.digits)
    \/ a.digits = b.digits /\ a.ext = "tif" /\ b.ext = "tiff"

\* sorted(names)
RECURSIVE SortedNames(_)
SortedNames(S) ==
    IF S = {} THEN <<>>
    ELSE LET m == CHOOSE a \in S : \A b \in S \ {a} : NameLess(a, b)
         IN  <<m>> \o SortedNames(S \ {m})

\* The orders os.listdir may return the entries of a directory in.
RECURSIVE Listings(_)
Listings(S) ==
    IF S = {} THEN {<<>>}
    ELSE UNION {{<<a>> \o l : l \in Listings(S \ {a})} : a \in S}

\* list(filter(pred, l))
RECURSIVE FilterTiff(_)
FilterTiff(l) ==
    IF l = <<>> THEN <<>>
    ELSE IF IsTiff(l[1]) THEN <<l[1]>> \o FilterTiff(Tail(l))
    ELSE FilterTiff(Tail(l))

\* A reconstruction directory: tiles zs .. zs+n-1 without `gap`, one extension,
\* all tiles rows x cols. One directory holds a single upper-case ".TIF" file.
Datasets ==
    { d \in [zs : ZStarts, n : 0..MaxTiles, gap : {-1} \cup (1..(MaxTiles + 1)),
             ext : Exts, rows : 0..MaxDim, cols : 0..MaxDim] :
        /\ <<d.rows, d.cols>> \in Shapes
        /\ d.n = 0 => (d.zs = 0 /\ d.ext = "tiff" /\ d.rows = 0)
        /\ d.ext = "TIF" => (d.zs = 0 /\ d.n = 1 /\ d.rows = 1 /\ d.cols = 1)
        /\ d.gap # -1 => (d.zs < d.gap /\ d.gap < d.zs + d.n - 1) }

\* Directories as the reconstruction writes them: gap-free ".tiff" tiles, square.
WellFormed ==
    {d \in Datasets : d.n >= 1 /\ d.gap = -1 /\ d.ext = "tiff" /\ d.rows = d.cols /\ d.rows >= 1}

Suffixes(d) == {k \in d.zs..(d.zs + d.n - 1) : k # d.gap}
DirNames(d) == {TileName("recon", k, d.ext) : k \in Suffixes(d)}

\* Pixel (r, c) of tile k (0-based r, c): distinct for every tile and position,
\* and never 0, the value np.zeros fills the sections with.
Pixel(k, r, c) == 100 * (k + 1) + 10 * r + c + 1

\* utils.read_tiff(name): the tile as a sequence of rows.
Tile(d, k)    == [r \in 1..d.rows |-> [c \in 1..d.cols |-> Pixel(k, r - 1, c - 1)]]
\* zz[idy] and zz[:, idx] for 0 <= idy < rows, 0 <= idx < cols.
TileRow(d, k, iy) == [c \in 1..d.cols |-> Pixel(k, iy, c - 1)]
TileCol(d, k, ix) == [r \in 1..d.rows |-> Pixel(k, r - 1, ix)]

\* np.zeros((rows, cols))
Zeros(nr, nc) == [r \in 1..nr |-> [c \in 1..nc |-> 0]]

\* a[k, :] = v is legal when v has the row's length or length 1 (broadcast).
Fits(v, n) == Len(v) = n \/ Len(v) = 1
Broadcast(v, n) == IF Len(v) = n THEN v ELSE [c \in 1..n |-> v[1]]


\* ------------------------------------------------------------------- state
VARIABLES
    impl,             \* which read_recon the run uses
    request,          \* idx/idy/idz as the user gave them on the command line
    args,             \* the args object shared by every call of the run
    fileNo,           \* data files handed to read_recon so far
    dataset,          \* the reconstruction directory of the current data file
    meta_width,       \* raw projection width from the data file's meta
    double_fov,       \* self.double_fov
    pc,               \* position inside read_recon
    fname_tmp,        \* tiff_file_list[0], the probe tile
    z_start, z_end,   \* parsed from the first and last listed name
    width, height,    \* locals of read_recon
    binning_rec,      \* local binning_rec
    w, h,             \* extent of the sections
    z, x, y,          \* depth plane, column section, row section
    j,                \* loop variable of the scan
    recon,            \* the list read_recon returns
    self_binning_rec, \* TomoLog2BM.binning_rec attribute
    exc,              \* the exception raised inside the try block, if any
    raised,           \* the exception that left read_recon, if any
    first,            \* what the previous call on the same directory returned
    up_pc,            \* position inside globus.upload_file
    local_file,       \* its argument: the path, as a sequence of components
    remote_subpath,   \* its argument
    file_exists,      \* os.path.exists(local_file)
    token_file,       \* what ~/.tomolog_globus_tokens.json holds
    touched,          \* what the call did: load_tokens, auth_flow, submit
    up_exc,           \* the exception raised inside upload_file's try block
    up_raised,        \* the exception that left upload_file, if any
    http_url,         \* the value upload_file returned
    run_pc,           \* position inside __main__.run_log
    mode,             \* what args.file_name named: a file, a directory, neither
    user_file_name,   \* args.file_name as the user supplied it
    file_name,        \* args.file_name
    h5_file_list,     \* the data files of the directory still to be published
    published,        \* what the slide of the current data file holds, in order
    meta_resolution,  \* the resolution stored in the data file's meta
    binning,          \* the detector binning stored in the data file's meta
    resolution,       \* self.resolution (TomoLog), self.mct_resolution (TomoLog2BM)
    proj_resolution,  \* the scale-bar resolution of the projection plot
    recon_resolution, \* the scale-bar resolution of the reconstruction plot
    run_raised,       \* the exception that left run_log, if any
    config,           \* what config.write stored at the end of run_log
    process_running,  \* app_state['process_running']
    current_process,  \* app_state['current_process']
    status,           \* app_state['status']
    wpc,              \* position of each run_tomolog_cli thread
    file_list,        \* its file_list
    file_i,           \* files its loop has finished
    any_failed,       \* whether one of its subprocesses returned non-zero
    running,          \* the tomolog subprocesses that are running
    sent_terminate,   \* the subprocesses terminate() was called on
    spc,              \* position inside the Stop branch of handle_buttons
    stop_done,        \* a Stop handler has completed and Run was not clicked since
    logs,             \* app_state['logs']
    lpc,              \* position of each thread inside add_log
    log_slice,        \* the value of app_state['logs'][-50:] a thread has computed
    appended,         \* every message, in the order of the append calls
    auth_pc,          \* position inside _GlobusAuth.get_client
    stored,           \* what the token file held when get_client was entered
    file_tokens,      \* what the token file holds
    self_tokens,      \* self.tokens
    issued,           \* token responses received from the Globus service
    did,              \* what the call did: refresh, fresh authorization
    auth_raised       \* the exception that left get_client, if any

reconVars == <<impl, request, args, fileNo, dataset, meta_width, double_fov, pc,
               fname_tmp, z_start, z_end, width, height, binning_rec, w, h,
               z, x, y, j, recon, self_binning_rec, exc, raised>>

\* State read_recon does not touch.
uploadVars == <<up_pc, local_file, remote_subpath, file_exists, token_file,
                touched, up_exc, up_raised, http_url>>

\* State of __main__.run_log and of the slide it fills.
runLogVars == <<run_pc, mode, user_file_name, file_name, h5_file_list, published,
                meta_resolution, binning, resolution, proj_resolution,
                recon_resolution, run_raised, config>>

\* State of the GUI: app_state, the worker threads, the subprocesses.
guiVars == <<process_running, current_process, status, wpc, file_list, file_i,
             any_failed, running, sent_terminate, spc, stop_done>>

\* State of add_log and of the threads calling it.
logVars == <<logs, lpc, log_slice, appended>>

\* State of _GlobusAuth.get_client and of the token file.
authVars == <<auth_pc, stored, file_tokens, self_tokens, issued, did, auth_raised>>

laterVars == <<runLogVars, guiVars, logVars, authVars>>

\* State __main__.run_log does not touch.
besideRunLog == <<first, uploadVars, guiVars, logVars, authVars>>
\* State the GUI handlers and workers do not touch, the log apart.
besideGui == <<reconVars, first, uploadVars, runLogVars, logVars, authVars>>
\* State add_log does not touch.
besideLog == <<reconVars, first, uploadVars, runLogVars, guiVars, authVars>>
\* State get_client does not touch.
besideAuth == <<reconVars, first, uploadVars, runLogVars, guiVars, logVars>>

otherVars == <<first, uploadVars, laterVars>>

vars == <<reconVars, otherVars>>

\* Python's None, as a returned URL.
None == <<>>

NoName == [prefix |-> "", digits |-> <<>>, ext |-> ""]
NoDataset == [zs |-> 0, n |-> 0, gap |-> -1, ext |-> "tiff", rows |-> 0, cols |-> 0]
\* No call has returned yet.
NoResult == [called |-> FALSE]
\* config.write has not run.
NoConfig == [written |-> FALSE]

\* 'expires_at_seconds' is not among the keys.
NoExpiry == -1
\* A token dictionary: None, a dictionary without the transfer.api.globus.org
\* entry, or that entry with its refresh token (there or not), the response
\* its access token came with, and its expiry.
TokenDict(kind, refresh_token, access_token, expires_at_seconds) ==
    [kind |-> kind, refresh_token |-> refresh_token, access_token |-> access_token,
     expires_at_seconds |-> expires_at_seconds]
\* self.tokens = None
NoTokens == TokenDict("None", FALSE, 0, NoExpiry)
\* The token file: absent, not JSON, or a token dictionary.
TokenFile(state, tokens) == [state |-> state, tokens |-> tokens]
NoFile == TokenFile("absent", NoTokens)

InitWith(I) ==
    /\ impl \in I
    /\ request \in Requests
    /\ args = request
    /\ fileNo = 0
    /\ dataset = NoDataset
    /\ meta_width = 1
    /\ double_fov = FALSE
    /\ pc = "idle"
    /\ fname_tmp = NoName
    /\ z_start = 0 /\ z_end = 0
    /\ width = 0 /\ height = 0
    /\ binning_rec = -1
    /\ w = 0 /\ h = 0
    /\ z = <<>> /\ x = <<>> /\ y = <<>>
    /\ j = 0
    /\ recon = <<>>
    /\ self_binning_rec = -1
    /\ exc = "none"
    /\ raised = "none"
    /\ first = NoResult
    /\ up_pc = "idle"
    /\ local_file = <<>>
    /\ remote_subpath = ""
    /\ file_exists = FALSE
    /\ token_file = "absent"
    /\ touched = {}
    /\ up_exc = "none"
    /\ up_raised = "none"
    /\ http_url = None
    /\ run_pc = "idle"
    /\ mode = "none"
    /\ user_file_name = <<>>
    /\ file_name = <<>>
    /\ h5_file_list = <<>>
    /\ published = <<>>
    /\ meta_resolution = 0
    /\ binning = 1
    /\ resolution = 0
    /\ proj_resolution = 0
    /\ recon_resolution = 0
    /\ run_raised = "none"
    /\ config = NoConfig
    /\ process_running = FALSE
    /\ current_process = None
    /\ status = "Ready"
    /\ wpc = [t \in Workers |-> "unused"]
    /\ file_list = [t \in Workers |-> <<>>]
    /\ file_i = [t \in Workers |-> 0]
    /\ any_failed = [t \in Workers |-> FALSE]
    /\ running = {}
    /\ sent_terminate = {}
    /\ spc = "idle"
    /\ stop_done = FALSE
    /\ logs = <<>>
    /\ lpc = [t \in LogThreads |-> "idle"]
    /\ log_slice = [t \in LogThreads |-> <<>>]
    /\ appended = <<>>
    /\ auth_pc = "idle"
    /\ stored = NoFile
    /\ file_tokens = NoFile
    /\ self_tokens = NoTokens
    /\ issued = 0
    /\ did = {}
    /\ auth_raised = "none"

Init     == InitWith(Impls)
Init2BM  == InitWith({"2bm"})
InitReads == InitWith({"reads"})
\* The runs whose two in-plane cuts are asked for alike (both defaulted, or the
\* same row and column).
InitTwice == Init /\ request.idx = request.idy

\* A handler that re-raises: the failure reaches the caller of read_recon.
Reraise(kind) ==
    /\ exc' = kind
    /\ raised' = kind
    /\ pc' = "returned"

\* The except clauses (a ZeroDivisionError one in the 2-BM reader, a bare one
\* in both): the exception `kind` raised inside the try block is logged as
\* 'Skipping reconstruction' and control falls through to the return statement.
\* Nothing is re-raised.
Raise(kind) ==
    /\ exc' = kind
    /\ raised' = "none"
    /\ pc' = "returned"

\* Normal progress to the next position inside the try block.
Goto(next) == pc' = next /\ exc' = "none" /\ raised' = "none"

\* ----------------------------------------------------------------- actions

\* The binning the reader infers from the probe tile's shape[0].
Binning(wd, shape0) == wd \div shape0

\* A reader that moves an index the caller gave on by one.
ResolveAdvancing(arg, extent) == IF arg = Sentinel THEN extent \div 2 ELSE arg + 1

\* The index the 2-BM reader uses for one axis.
Resolve2BM(arg, extent) == IF arg = Sentinel THEN extent \div 2 ELSE arg
\* The index reads.read_recon uses: always the middle (shift = 0).
ResolveReads(arg, extent) == extent \div 2

\* list(filter(...)) of the listing l, sorted by the 2-BM reader only.
TiffFileList(l) ==
    LET kept == FilterTiff(l)
    IN  IF impl = "2bm" THEN SortedNames({kept[i] : i \in 1..Len(kept)}) ELSE kept

\* A reader that resolves the indices before anything can fail.
ArgsResolvedFirst(failed, ww, hh) ==
    IF impl = "2bm"
    THEN [idz |-> Resolve2BM(args.idz, hh),
          idy |-> Resolve2BM(args.idy, ww),
          idx |-> Resolve2BM(args.idx, ww)]
    ELSE [idz |-> ResolveReads(args.idz, hh),
          idy |-> ResolveReads(args.idy, ww),
          idx |-> ResolveReads(args.idx, ww)]

\* The args object after the index resolution: untouched when an earlier
\* statement of the try block raised, the three indices resolved otherwise.
ArgsAfter(failed, ww, hh) ==
    IF failed # "none" THEN args
    ELSE IF impl = "2bm"
    THEN [idz |-> Resolve2BM(args.idz, hh),
          idy |-> Resolve2BM(args.idy, ww),
          idx |-> Resolve2BM(args.idx, ww)]
    ELSE [idz |-> ResolveReads(args.idz, hh),
          idy |-> ResolveReads(args.idy, ww),
          idx |-> ResolveReads(args.idx, ww)]

\* Index resolution and the hand-over to the depth-plane read, or the except
\* clause when `failed` names an exception of the steps before.
Resolved(failed, b, wd, ww, hh) ==
    /\ IF failed = "none" THEN Goto("depth") ELSE Raise(failed)
    /\ width' = wd
    /\ binning_rec' = b
    /\ w' = ww
    /\ h' = hh
    /\ args' = ArgsAfter(failed, ww, hh)

\* A reader that leaves the width alone in double-FOV mode.
FovWidthSame(mw) == mw

\* width = width * 2: the in-plane width of a double-FOV (0-360) data set.
FovWidth(mw) == mw * 2

\* Probe read, binning and section extents for the tile range zs .. ze-1.
Geometry(d, mw, fov, readable, zs, ze) ==
    LET shape0 == d.rows
        dfov   == impl = "2bm" /\ fov
    IN  IF ~readable
        THEN Resolved("CorruptTile", -1, mw, 0, 0)
        ELSE IF dfov
        THEN Resolved("none", 1, FovWidth(mw), FovWidth(mw) \div 1, ze - zs)
        ELSE IF shape0 = 0
        THEN Resolved("ZeroDivisionError", -1, mw, 0, 0)
        ELSE IF Binning(mw, shape0) = 0
        THEN Resolved("ZeroDivisionError", 0, mw, 0, 0)
        ELSE IF impl = "2bm"
        THEN Resolved("none", Binning(mw, shape0), mw, mw \div Binning(mw, shape0), ze - zs)
        ELSE Resolved("none", Binning(mw, shape0), mw, mw \div Binning(mw, shape0),
                      (ze - zs) \div Binning(mw, shape0))

\* The tile range read off the kept names.
Range(d, mw, fov, readable, tiff_file_list) ==
    IF tiff_file_list = <<>>
    THEN /\ fname_tmp' = NoName
         /\ z_start' = 0 /\ z_end' = 0 /\ height' = 0
         /\ Resolved("EmptyTileSet", -1, mw, 0, 0)
    ELSE /\ fname_tmp' = tiff_file_list[1]
         /\ z_start' = ParseSuffix(tiff_file_list[1])
         /\ z_end' = ParseSuffix(tiff_file_list[Len(tiff_file_list)]) + 1
         /\ height' = z_end' - z_start'
         /\ Geometry(d, mw, fov, readable, z_start', z_end')

\* read_recon is entered for the data file whose reconstruction directory is d
\* and runs up to the index resolution: it lists the directory (in the order
\* l), takes the tile range from the first and the last kept name, reads the
\* probe tile (readable or not), infers the binning and the section extents and
\* resolves the three cut indices.
Locate(d, mw, fov, l, readable) ==
    /\ fileNo' = fileNo + 1
    /\ dataset' = d
    /\ meta_width' = mw
    /\ double_fov' = fov
    /\ self_binning_rec' = -1
    /\ z' = <<>> /\ x' = <<>> /\ y' = <<>>
    /\ j' = 0
    /\ recon' = <<>>
    /\ Range(d, mw, fov, readable, TiffFileList(l))
    /\ UNCHANGED <<impl, request>>

\* The sample_in_x values of the data file's meta: centred, off centre.
SampleInX == {-1, 0, 1}

\* TomoLog2BM.run_log: a sample off centre in x marks a double-FOV data set.
DoubleFov(sample_in_x) == sample_in_x # 0

\* reads.read_recon never looks at the double-FOV flag.
FovChoices == IF impl = "2bm" THEN {DoubleFov(s) : s \in SampleInX} ELSE {FALSE}

\* run_log on a single data file: one reader, one read_recon call.
BeginSingle ==
    /\ pc = "idle"
    /\ fileNo = 0
    /\ \E d \in Datasets, mw \in RawWidths, fov \in FovChoices, readable \in BOOLEAN :
         \E l \in Listings(DirNames(d)) : Locate(d, mw, fov, l, readable)
    /\ UNCHANGED otherVars

\* run_log on a directory: the next data file of the sorted list gets a fresh
\* reader built on the same args object.
BeginBatch ==
    /\ pc \in {"idle", "returned"}
    /\ fileNo < MaxFiles
    /\ \E d \in WellFormed, k \in 1..2 :
         \E l \in Listings(DirNames(d)) : Locate(d, k * d.cols, FALSE, l, TRUE)
    /\ UNCHANGED otherVars

\* The name both readers open for tile k: always the ".tiff" extension.
ReadName(k) == TileName("recon", k, "tiff")
\* A storage that has a file for every tile name asked for.
ExistsAlways(d, k) == TRUE

\* Whether utils.read_tiff finds the file of tile k.
Exists(d, k) == k >= 0 /\ ReadName(k) \in DirNames(d)

\* A reader that takes idz relative to the first tile of the directory.
DepthTileFromStart == z_start + args.idz

\* The tile the depth plane is read from.
DepthTile == args.idz

\* Read the depth plane, allocate the two sections.
ReadDepthPlane ==
    /\ pc = "depth"
    /\ \E readable \in BOOLEAN :
         IF ~Exists(dataset, DepthTile)
         THEN Raise("TileNotFound") /\ UNCHANGED <<z, x, y, j>>
         ELSE IF ~readable
         THEN Raise("CorruptTile") /\ UNCHANGED <<z, x, y, j>>
         ELSE IF h < 0
         THEN /\ Raise("NegativeDimension")
              /\ z' = Tile(dataset, DepthTile)
              /\ UNCHANGED <<x, y, j>>
         ELSE /\ z' = Tile(dataset, DepthTile)
              /\ y' = Zeros(h, w)
              /\ x' = Zeros(h, w)
              /\ j' = z_start
              /\ Goto("scan")
    /\ UNCHANGED <<impl, request, args, fileNo, dataset, meta_width, double_fov,
                   fname_tmp, z_start, z_end, width, height, binning_rec, w, h,
                   recon, self_binning_rec>>
    /\ UNCHANGED otherVars

\* The exclusive upper bound of the scan loop.
ScanEnd == IF impl = "2bm" THEN z_end ELSE z_end \div binning_rec

\* One iteration of the scan: read tile j, copy row idy and column idx.
ScanTile ==
    /\ pc = "scan"
    /\ j < ScanEnd
    /\ \E readable \in BOOLEAN :
         LET k == j - z_start + 1
         IN  IF ~Exists(dataset, j)
             THEN Raise("TileNotFound") /\ UNCHANGED <<x, y, j>>
             ELSE IF ~readable
             THEN Raise("CorruptTile") /\ UNCHANGED <<x, y, j>>
             ELSE IF args.idy >= dataset.rows \/ k > h
             THEN Raise("IndexOutOfRange") /\ UNCHANGED <<x, y, j>>
             ELSE IF ~Fits(TileRow(dataset, j, args.idy), w)
             THEN Raise("ShapeMismatch") /\ UNCHANGED <<x, y, j>>
             ELSE IF args.idx >= dataset.cols
             THEN /\ Raise("IndexOutOfRange")
                  /\ y' = [y EXCEPT ![k] = Broadcast(TileRow(dataset, j, args.idy), w)]
                  /\ UNCHANGED <<x, j>>
             ELSE IF ~Fits(TileCol(dataset, j, args.idx), w)
             THEN /\ Raise("ShapeMismatch")
                  /\ y' = [y EXCEPT ![k] = Broadcast(TileRow(dataset, j, args.idy), w)]
                  /\ UNCHANGED <<x, j>>
             ELSE /\ y' = [y EXCEPT ![k] = Broadcast(TileRow(dataset, j, args.idy), w)]
                  /\ x' = [x EXCEPT ![k] = Broadcast(TileCol(dataset, j, args.idx), w)]
                  /\ j' = j + 1
                  /\ Goto("scan")
    /\ UNCHANGED <<impl, request, args, fileNo, dataset, meta_width, double_fov,
                   fname_tmp, z_start, z_end, width, height, binning_rec, w, h,
                   z, recon, self_binning_rec>>
    /\ UNCHANGED otherVars

\* A result list without the depth plane.
ResultWithoutDepth(xs, ys, zs) == <<xs, ys>>

\* What read_recon returns once the scan is over.
Result(xs, ys, zs) == <<xs, ys, zs>>

\* The scan is over: build the result list, record the binning, return.
Finish ==
    /\ pc = "scan"
    /\ j >= ScanEnd
    /\ recon' = Result(x, y, z)
    /\ self_binning_rec' = IF impl = "2bm" THEN binning_rec ELSE self_binning_rec
    /\ pc' = "returned"
    /\ UNCHANGED <<impl, request, args, fileNo, dataset, meta_width, double_fov,
                   fname_tmp, z_start, z_end, width, height, binning_rec, w, h,
                   z, x, y, j, exc, raised>>
    /\ UNCHANGED otherVars

Steps ==
    \/ ReadDepthPlane
    \/ ScanTile
    \/ Finish

\* What the caller gets as the binning: the binning_rec attribute of the 2-BM
\* reader, the second element of the pair reads.read_recon returns.
ReturnedBinning == IF impl = "2bm" THEN self_binning_rec ELSE binning_rec

\* Where the call stood when it ended.
Stopped == <<w, z, j>>

\* read_recon is called a second time with the same args object on the
\* directory it has just returned from. The directory is unmodified: its
\* listing starts and ends with the names the first call saw.
CallAgain ==
    /\ pc = "returned"
    /\ fileNo = 1
    /\ first = NoResult
    /\ UNCHANGED <<uploadVars, laterVars>>
    /\ first' = [called |-> TRUE, recon |-> recon, binning_rec |-> ReturnedBinning,
                 exc |-> exc, stopped |-> Stopped]
    /\ \E l \in Listings(DirNames(dataset)), readable \in BOOLEAN :
         /\ l # <<>> => (l[1] = fname_tmp /\ ParseSuffix(l[Len(l)]) + 1 = z_end)
         /\ Locate(dataset, meta_width, double_fov, l, readable)

Next      == BeginSingle \/ Steps
NextBatch == BeginBatch \/ Steps
NextTwice == BeginSingle \/ CallAgain \/ Steps

Spec      == Init /\ [][Next]_vars
Spec2BM   == Init2BM /\ [][Next]_vars
SpecReads == InitReads /\ [][Next]_vars
SpecBatch == Init /\ [][NextBatch]_vars
SpecTwice == InitTwice /\ [][NextTwice]_vars

\* ------------------------------------------------------ globus.upload_file

GLOBUS_REMOTE_BASE_PATH == "/test_tomolog/"
GLOBUS_BASE_URL == "https://g-df2e9.fd635.8443.data.globus.org/"

LocalFiles == {<<"a.pptx">>, <<"tmp", "a.pptx">>, <<"tmp", "b.png">>}
Subpaths   == {"slides/", "img/"}
\* The token file: missing, not JSON, without a refresh token, with an expired
\* access token, good.
TokenFiles == {"absent", "corrupt", "no_refresh_token", "expired", "valid"}
\* What the interactive authorization flow can end with: success, a failed
\* request, end of input at the prompt, Ctrl-C at the prompt.
FlowOutcomes == {"none", "GlobusAPIError", "EOFError", "KeyboardInterrupt"}
\* What TransferData / submit_transfer can end with.
SubmitOutcomes == {"none", "GlobusAPIError"}

\* Path(local_file).name
Filename(path) == path[Len(path)]

\* A URL that leaves the remote sub-directory out.
HttpUrlNoSubpath(subpath, filename) == <<GLOBUS_BASE_URL, filename>>

\* f"{GLOBUS_BASE_URL}{remote_subpath}{filename}", kept as its parts.
HttpUrl(subpath, filename) == <<GLOBUS_BASE_URL, subpath, filename>>

\* The exception classes `except Exception` catches; KeyboardInterrupt derives
\* from BaseException only.
IsException(kind) == kind \in {"GlobusAPIError", "EOFError"}

\* `kind` is raised inside the try block of upload_file: the handler prints
\* 'Upload failed' and returns None for an Exception; anything else leaves
\* upload_file.
Except(kind) ==
    /\ up_exc' = kind
    /\ up_raised' = IF IsException(kind) THEN "none" ELSE kind
    /\ http_url' = None
    /\ up_pc' = "done"

\* upload_file is entered: the existence test, file name and remote path.
UploadFile ==
    /\ up_pc = "idle"
    /\ \E f \in LocalFiles, sub \in Subpaths, e \in BOOLEAN, t \in TokenFiles :
         /\ local_file' = f
         /\ remote_subpath' = sub
         /\ file_exists' = e
         /\ token_file' = t
         /\ up_pc' = IF e THEN "get_client" ELSE "done"
    /\ http_url' = None
    /\ UNCHANGED <<touched, up_exc, up_raised>>
    /\ UNCHANGED <<reconVars, first, laterVars>>

\* _auth.get_client(): load the tokens, run the authorization flow when there
\* are none or none to refresh with, refresh an expired token (falling back to
\* the flow when the refresh fails), build the client.
GetClient ==
    /\ up_pc = "get_client"
    /\ \E refreshed \in BOOLEAN, o \in FlowOutcomes :
         LET loaded == token_file \in {"no_refresh_token", "expired", "valid"}
             flow   == \/ ~loaded
                       \/ token_file = "no_refresh_token"
                       \/ token_file = "expired" /\ ~refreshed
         IN  /\ touched' = touched \cup {"load_tokens"}
                            \cup (IF flow THEN {"auth_flow"} ELSE {})
             /\ IF flow /\ o # "none"
                THEN Except(o)
                ELSE /\ up_pc' = "submit"
                     /\ UNCHANGED <<up_exc, up_raised, http_url>>
    /\ UNCHANGED <<local_file, remote_subpath, file_exists, token_file>>
    /\ UNCHANGED <<reconVars, first, laterVars>>

\* TransferData, add_item, submit_transfer, and the URL on success.
SubmitTransfer ==
    /\ up_pc = "submit"
    /\ touched' = touched \cup {"submit"}
    /\ \E o \in SubmitOutcomes :
         IF o # "none"
         THEN Except(o)
         ELSE /\ http_url' = HttpUrl(remote_subpath, Filename(local_file))
              /\ up_pc' = "done"
              /\ UNCHANGED <<up_exc, up_raised>>
    /\ UNCHANGED <<local_file, remote_subpath, file_exists, token_file>>
    /\ UNCHANGED <<reconVars, first, laterVars>>

NextUpload == UploadFile \/ GetClient \/ SubmitTransfer

\* One reader state is enough: upload_file does not look at it.
InitUpload == Init2BM /\ request = [idx |-> Sentinel, idy |-> Sentinel, idz |-> Sentinel]

SpecUpload == InitUpload /\ [][NextUpload]_vars

\* ------------------------------------------------------ __main__.run_log

\* What the user passes as file_name: a data file, a directory of data files,
\* a path that does not exist. Paths are sequences of components.
FileNames == [file |-> <<"data", "scan_001.h5">>, dir |-> <<"data">>,
              missing |-> <<"nowhere">>]

H5Names == <<"scan_001.h5", "scan_002.h5", "scan_003.h5", "scan_004.h5">>

\* h5_file_list_sorted of a directory holding n data files.
H5FileListSorted(n) == SubSeq(H5Names, 1, n)

\* top + fname
TopFname(top, fname) == top \o <<fname>>

\* The resolution and the detector binning a data file's meta can hold.
Resolutions == {2, 3}
Binnings    == {1, 2}

\* The reconstruction directories of a run: as the reconstruction writes them,
\* or without any tile.
RunDatasets == WellFormed \cup {d \in Datasets : d.n = 0}

\* config.write(args.config, args, ...): the args object as it is then.
ConfigWrite(fn, a) ==
    [written |-> TRUE, file_name |-> fn, idx |-> a.idx, idy |-> a.idy, idz |-> a.idz]

\* run_log is entered: a single file and a non-empty directory go on to their
\* first data file; an empty directory and a missing path are logged and the
\* configuration is written at once.
RunLog ==
    /\ run_pc = "idle"
    /\ pc = "idle"
    /\ \E m \in {"file", "dir", "missing"}, n \in 0..MaxFiles :
         /\ m # "dir" => n = 0
         /\ mode' = m
         /\ user_file_name' = FileNames[m]
         /\ file_name' = FileNames[m]
         /\ h5_file_list' = H5FileListSorted(n)
         /\ IF m = "file" \/ (m = "dir" /\ n > 0)
            THEN run_pc' = "next" /\ config' = config
            ELSE run_pc' = "end" /\ config' = ConfigWrite(FileNames[m], args)
    /\ UNCHANGED <<published, meta_resolution, binning, resolution,
                   proj_resolution, recon_resolution, run_raised>>
    /\ UNCHANGED <<reconVars, besideRunLog>>

\* TomoLog.run_log up to its read_recon call: the meta values, and the
\* projection published with self.resolution = self.resolution * self.binning
\* (a beamline other than 32-id, a data file with complete meta).
TomoLogRunLog(res, b) ==
    /\ meta_resolution' = res
    /\ binning' = b
    /\ resolution' = res * b
    /\ proj_resolution' = res * b
    /\ published' = <<"projection image", "Micro-CT projection">>

\* TomoLog2BM.run_log up to its read_recon call: the slide and the description;
\* the projection is read but not yet published.
TomoLog2BMRunLog(res) ==
    /\ meta_resolution' = res
    /\ binning' = 1
    /\ resolution' = res
    /\ proj_resolution' = 0
    /\ published' = <<>>

\* The next data file: in directory mode args.file_name is set to it; a fresh
\* reader built on the shared args object runs up to read_recon's index
\* resolution.
RunLogFile ==
    /\ run_pc = "next"
    /\ IF mode = "dir"
       THEN /\ file_name' = TopFname(user_file_name, Head(h5_file_list))
            /\ h5_file_list' = Tail(h5_file_list)
       ELSE UNCHANGED <<file_name, h5_file_list>>
    /\ \E res \in Resolutions :
         IF impl = "2bm" THEN TomoLog2BMRunLog(res)
         ELSE \E b \in Binnings : TomoLogRunLog(res, b)
    /\ recon_resolution' = 0
    /\ \E d \in RunDatasets, k \in 1..2, fov \in FovChoices, readable \in BOOLEAN :
         Locate(d, k * d.cols, fov, SortedNames(DirNames(d)), readable)
    /\ run_pc' = "read_recon"
    /\ UNCHANGED <<mode, user_file_name, run_raised, config>>
    /\ UNCHANGED besideRunLog

\* TomoLog2BM.plot_recon writes recon[k][0, 0] and recon[k][0, 1] into each
\* section: an IndexError on a section less than two pixels wide.
PlotRecon2BM(r) ==
    IF \E k \in 1..3 : Len(r[k]) = 0 \/ Len(r[k][1]) < 2 THEN "IndexError" ELSE "none"

\* plots.plot_recon(args, dims, recon, fname, resolution, binning) called with
\* five arguments: a TypeError before the function body runs.
PlotRecon(r) == "TypeError"

\* TomoLog2BM.publish_proj, with or without a web-camera frame in the file.
PublishProj2BM(camera) ==
    <<"projection image", "Micro-CT projection">>
    \o (IF camera THEN <<"camera image", "Frame from the IP camera in the hutch">>
        ELSE <<>>)

\* The end of one data file in __main__.run_log: an exception of the reader
\* leaves run_log; otherwise the next file of the directory follows, and after
\* the last one the configuration is written.
RunLogGoesOn(raises) ==
    /\ run_raised' = raises
    /\ IF raises # "none"
       THEN run_pc' = "aborted" /\ config' = config
       ELSE IF mode = "dir" /\ h5_file_list # <<>>
       THEN run_pc' = "next" /\ config' = config
       ELSE run_pc' = "end" /\ config' = ConfigWrite(file_name, args)

\* TomoLog2BM.publish_proj and publish_recon: the reconstruction goes onto the
\* slide when read_recon returned three sections; its scale bar is
\* self.mct_resolution * self.binning_rec.
PublishRecon2BM ==
    \E camera \in BOOLEAN :
        LET raises == IF Len(recon) = 3 THEN PlotRecon2BM(recon) ELSE "none"
        IN  /\ proj_resolution' = resolution
            /\ resolution' = resolution
            /\ IF Len(recon) = 3 /\ raises = "none"
               THEN /\ recon_resolution' = resolution * self_binning_rec
                    /\ published' = PublishProj2BM(camera)
                                     \o <<"reconstruction image", "Reconstruction", "rec_line">>
               ELSE /\ recon_resolution' = 0
                    /\ published' = PublishProj2BM(camera)
            /\ RunLogGoesOn(raises)

\* TomoLog.run_log after read_recon: with three sections self.resolution is
\* multiplied by self.binning and binning_rec and handed to plots.plot_recon;
\* the 'Other info/screenshots' label closes the slide.
PublishReconTomoLog ==
    LET raises == IF Len(recon) = 3 THEN PlotRecon(recon) ELSE "none"
    IN  /\ proj_resolution' = proj_resolution
        /\ IF Len(recon) = 3
           THEN /\ resolution' = resolution * binning * binning_rec
                /\ recon_resolution' = resolution * binning * binning_rec
           ELSE UNCHANGED <<resolution, recon_resolution>>
        /\ published' =
             IF Len(recon) # 3 THEN published \o <<"Other info/screenshots">>
             ELSE IF raises # "none" THEN published
             ELSE published \o <<"reconstruction image", "Reconstruction",
                                 "Other info/screenshots">>
        /\ RunLogGoesOn(raises)

\* read_recon has returned: the rest of the reader's run_log.
PublishSlide ==
    /\ run_pc = "read_recon"
    /\ pc = "returned"
    /\ IF impl = "2bm" THEN PublishRecon2BM ELSE PublishReconTomoLog
    /\ UNCHANGED <<mode, user_file_name, file_name, h5_file_list,
                   meta_resolution, binning>>
    /\ UNCHANGED <<reconVars, besideRunLog>>

NextRunLog == RunLog \/ RunLogFile \/ Steps \/ PublishSlide

\* The runs that leave the three cuts to the reader (--idx -1 --idy -1 --idz -1).
InitRunLog == Init /\ request = [idx |-> Sentinel, idy |-> Sentinel, idz |-> Sentinel]

SpecRunLog == InitRunLog /\ [][NextRunLog]_vars

\* ------------------------------------------------------------------- GUI

\* The file templates typed into the GUI: one file, a numbered series.
Templates  == {"scan.h5", "scan_{}.h5"}
\* The file counts typed into the GUI: the number field accepts any integer.
FileCounts == -1..MaxCount

\* file_template.format(n)
Format(template, n) == <<template, n>>

\* generate_file_list: the template itself when it has no placeholder,
\* otherwise the names for start .. start+count-1 (none for a count below 1).
GenerateFileList(file_template, start, count) ==
    IF file_template = ""
    THEN <<>>
    ELSE IF file_template # "scan_{}.h5"
    THEN <<file_template>>
    ELSE [k \in 1..count |-> Format(file_template, start + k - 1)]

\* `v or 1`
Or1(v) == IF v = 0 THEN 1 ELSE v

\* params.get('stop_on_error', False): handle_buttons puts no such key into
\* params.
StopOnError == FALSE

\* The statuses run_tomolog_cli ends with.
TerminalStatus == {"All files completed successfully", "Process stopped",
                   "tomolog not installed", "Error"}

\* The subprocess a worker starts for the file it is at.
Process(t) == <<t, file_i[t] + 1>>

\* The Run branch of handle_buttons: a thread is started for run_tomolog_cli,
\* whatever the state of the application.
RunButton ==
    /\ \E t \in Workers, file_template \in Templates, file_count \in FileCounts :
         /\ wpc[t] = "unused"
         /\ \A u \in Workers : u < t => wpc[u] # "unused"
         /\ file_list' = [file_list EXCEPT
                           ![t] = GenerateFileList(file_template, 1, Or1(file_count))]
         /\ wpc' = [wpc EXCEPT ![t] = "enter"]
    /\ stop_done' = FALSE
    /\ UNCHANGED <<process_running, current_process, status, file_i, any_failed,
                   running, sent_terminate, spc>>
    /\ UNCHANGED besideGui

\* run_tomolog_cli starts: the two flags, the file list; an empty list returns
\* at once, through the finally clause.
Enter(t) ==
    /\ wpc[t] = "enter"
    /\ process_running' = TRUE
    /\ status' = "Running tomolog..."
    /\ wpc' = [wpc EXCEPT ![t] = IF file_list[t] = <<>> THEN "finally" ELSE "check"]
    /\ UNCHANGED <<current_process, file_list, file_i, any_failed, running,
                   sent_terminate, spc, stop_done>>
    /\ UNCHANGED besideGui

\* The head of the loop: the next file, unless the list is exhausted or
\* process_running was cleared.
LoopCheck(t) ==
    /\ wpc[t] = "check"
    /\ wpc' = [wpc EXCEPT ![t] =
                 IF file_i[t] = Len(file_list[t]) THEN "final"
                 ELSE IF ~process_running THEN "final"
                 ELSE "popen"]
    /\ UNCHANGED <<process_running, current_process, status, file_list, file_i,
                   any_failed, running, sent_terminate, spc, stop_done>>
    /\ UNCHANGED besideGui

PopenOutcomes == {"none", "FileNotFoundError", "OSError"}

\* subprocess.Popen(cmd, ...): the subprocess runs, or the call raises and the
\* except clauses set the status.
Popen(t) ==
    /\ wpc[t] = "popen"
    /\ \E o \in PopenOutcomes :
         IF o = "none"
         THEN /\ running' = running \cup {Process(t)}
              /\ wpc' = [wpc EXCEPT ![t] = "store"]
              /\ UNCHANGED status
         ELSE /\ status' = IF o = "FileNotFoundError" THEN "tomolog not installed"
                           ELSE "Error"
              /\ wpc' = [wpc EXCEPT ![t] = "finally"]
              /\ UNCHANGED running
    /\ UNCHANGED <<process_running, current_process, file_list, file_i, any_failed,
                   sent_terminate, spc, stop_done>>
    /\ UNCHANGED besideGui

\* app_state['current_process'] = process
Store(t) ==
    /\ wpc[t] = "store"
    /\ current_process' = Process(t)
    /\ wpc' = [wpc EXCEPT ![t] = "wait"]
    /\ UNCHANGED <<process_running, status, file_list, file_i, any_failed, running,
                   sent_terminate, spc, stop_done>>
    /\ UNCHANGED besideGui

\* The return codes of a subprocess: success, failure, and -15 once it was
\* sent SIGTERM.
ReturnCodes(p) == {0, 1} \cup (IF p \in sent_terminate THEN {-15} ELSE {})

\* The output is read to its end, process.wait() returns: the return code is
\* logged and the loop goes on, also after a failure unless stop_on_error.
Wait(t) ==
    /\ wpc[t] = "wait"
    /\ \E return_code \in ReturnCodes(Process(t)) :
         /\ any_failed' = [any_failed EXCEPT ![t] = any_failed[t] \/ return_code # 0]
         /\ wpc' = [wpc EXCEPT ![t] =
                      IF return_code # 0 /\ StopOnError THEN "final" ELSE "check"]
    /\ running' = running \ {Process(t)}
    /\ file_i' = [file_i EXCEPT ![t] = file_i[t] + 1]
    /\ UNCHANGED <<process_running, current_process, status, file_list,
                   sent_terminate, spc, stop_done>>
    /\ UNCHANGED besideGui

\* The final status, decided by process_running alone.
FinalStatus(t) ==
    IF process_running THEN "All files completed successfully" ELSE "Process stopped"

Final(t) ==
    /\ wpc[t] = "final"
    /\ status' = FinalStatus(t)
    /\ wpc' = [wpc EXCEPT ![t] = "finally"]
    /\ UNCHANGED <<process_running, current_process, file_list, file_i, any_failed,
                   running, sent_terminate, spc, stop_done>>
    /\ UNCHANGED besideGui

\* The finally clause, and the return.
Finally(t) ==
    /\ wpc[t] = "finally"
    /\ process_running' = FALSE
    /\ current_process' = None
    /\ wpc' = [wpc EXCEPT ![t] = "returned"]
    /\ UNCHANGED <<status, file_list, file_i, any_failed, running, sent_terminate,
                   spc, stop_done>>
    /\ UNCHANGED besideGui

\* The Stop branch of handle_buttons tests app_state['current_process'].
StopButton ==
    /\ spc = "idle"
    /\ spc' = IF current_process # None THEN "terminate" ELSE "reset"
    /\ UNCHANGED <<process_running, current_process, status, wpc, file_list, file_i,
                   any_failed, running, sent_terminate, stop_done>>
    /\ UNCHANGED besideGui

\* app_state['current_process'].terminate(): the entry is read again; when a
\* worker has cleared it meanwhile the call raises AttributeError and the
\* handler ends there.
StopTerminate ==
    /\ spc = "terminate"
    /\ IF current_process = None
       THEN spc' = "idle" /\ UNCHANGED sent_terminate
       ELSE /\ sent_terminate' = sent_terminate \cup {current_process}
            /\ spc' = "reset"
    /\ UNCHANGED <<process_running, current_process, status, wpc, file_list, file_i,
                   any_failed, running, stop_done>>
    /\ UNCHANGED besideGui

\* The end of the Stop branch: both entries are cleared.
StopReset ==
    /\ spc = "reset"
    /\ process_running' = FALSE
    /\ current_process' = None
    /\ spc' = "idle"
    /\ stop_done' = TRUE
    /\ UNCHANGED <<status, wpc, file_list, file_i, any_failed, running, sent_terminate>>
    /\ UNCHANGED besideGui

RunTomologCli(t) ==
    \/ Enter(t)
    \/ LoopCheck(t)
    \/ Popen(t)
    \/ Store(t)
    \/ Wait(t)
    \/ Final(t)
    \/ Finally(t)

NextGui ==
    \/ RunButton
    \/ StopButton
    \/ StopTerminate
    \/ StopReset
    \/ \E t \in Workers : RunTomologCli(t)

SpecGui == InitUpload /\ [][NextGui]_vars

\* ---------------------------------------------------------------- add_log

\* app_state['logs'][-50:]
LastLogs(l) == IF Len(l) > MaxLogs THEN SubSeq(l, Len(l) - MaxLogs + 1, Len(l)) ELSE l

\* The message of the next add_log call.
NextMessage == Len(appended) + 1

\* app_state['logs'].append(...): the call starts by appending its message.
LogAppend(t) ==
    /\ lpc[t] = "idle"
    /\ Len(appended) < MaxCalls
    /\ logs' = Append(logs, NextMessage)
    /\ appended' = Append(appended, NextMessage)
    /\ lpc' = [lpc EXCEPT ![t] = "len"]
    /\ UNCHANGED log_slice
    /\ UNCHANGED besideLog

\* if len(app_state['logs']) > 50
LogLen(t) ==
    /\ lpc[t] = "len"
    /\ lpc' = [lpc EXCEPT ![t] = IF Len(logs) > MaxLogs THEN "slice" ELSE "idle"]
    /\ UNCHANGED <<logs, log_slice, appended>>
    /\ UNCHANGED besideLog

\* The right-hand side app_state['logs'][-50:] is evaluated.
LogSlice(t) ==
    /\ lpc[t] = "slice"
    /\ log_slice' = [log_slice EXCEPT ![t] = LastLogs(logs)]
    /\ lpc' = [lpc EXCEPT ![t] = "assign"]
    /\ UNCHANGED <<logs, appended>>
    /\ UNCHANGED besideLog

\* app_state['logs'] = ...: the new list replaces the old one; the call is over.
LogAssign(t) ==
    /\ lpc[t] = "assign"
    /\ logs' = log_slice[t]
    /\ lpc' = [lpc EXCEPT ![t] = "idle"]
    /\ UNCHANGED <<log_slice, appended>>
    /\ UNCHANGED besideLog

AddLog(t) == LogAppend(t) \/ LogLen(t) \/ LogSlice(t) \/ LogAssign(t)

NextLog == \E t \in LogThreads : AddLog(t)

SpecLog == InitUpload /\ [][NextLog]_vars

\* ------------------------------------------------- _GlobusAuth.get_client

\* time.time() during the call, and the five-minute buffer.
Now    == 1000
Buffer == 300

\* Stored expiries: past, inside the buffer, at its edge, outside, none.
Expiries == {NoExpiry, Now - 100, Now + Buffer - 1, Now + Buffer, Now + Buffer + 1}
\* The expiry of tokens the service has just issued.
NewExpiry == Now + 3600

\* What ~/.tomolog_globus_tokens.json can hold when get_client is entered.
TokenFileContents ==
    {NoFile, TokenFile("corrupt", NoTokens),
     TokenFile("json", TokenDict("empty", FALSE, 0, NoExpiry))}
    \cup {TokenFile("json", TokenDict("transfer", rt, 0, e)) : rt \in BOOLEAN, e \in Expiries}

\* 'refresh_token' in self.tokens.get('transfer.api.globus.org', {})
HasRefreshToken(tokens) == tokens.kind = "transfer" /\ tokens.refresh_token

\* A refresh only once the token has expired.
NeedsRefreshAtExpiry(tokens) ==
    /\ tokens.expires_at_seconds # NoExpiry
    /\ Now > tokens.expires_at_seconds

\* time.time() > transfer_tokens['expires_at_seconds'] - 300
NeedsRefresh(tokens) ==
    /\ tokens.expires_at_seconds # NoExpiry
    /\ Now > tokens.expires_at_seconds - Buffer

\* An exception leaves get_client.
AuthRaise(kind) == auth_raised' = kind /\ auth_pc' = "raised"

\* _save_tokens: self.tokens is set, then the file is written.
SaveTokens(tokens) ==
    /\ self_tokens' = tokens
    /\ file_tokens' = TokenFile("json", tokens)

\* get_client is entered; _load_tokens reads the file when it is there and is
\* JSON.
LoadTokens ==
    /\ auth_pc = "idle"
    /\ \E f \in TokenFileContents :
         /\ stored' = f
         /\ file_tokens' = f
         /\ IF f.state = "json"
            THEN self_tokens' = f.tokens /\ auth_pc' = "transfer_tokens"
            ELSE self_tokens' = self_tokens /\ auth_pc' = "fresh_load"
    /\ UNCHANGED <<issued, did, auth_raised>>
    /\ UNCHANGED besideAuth

\* Where _get_fresh_tokens returns to: lines 89, 95, 100 of get_client.
AfterFresh == [fresh_load |-> "transfer_tokens", fresh_norefresh |-> "expiry",
               fresh_fallback |-> "build"]

FreshOutcomes == {"none", "EOFError", "AuthAPIError", "OSError"}

\* _get_fresh_tokens: the interactive authorization; the response is saved.
\* The input or the exchange can fail, and so can the write of the file.
GetFreshTokens ==
    /\ auth_pc \in DOMAIN AfterFresh
    /\ \E o \in FreshOutcomes, rt \in BOOLEAN :
         LET tokens == TokenDict("transfer", rt, issued + 1, NewExpiry)
         IN  IF o \in {"EOFError", "AuthAPIError"}
             THEN AuthRaise(o) /\ UNCHANGED <<self_tokens, file_tokens, issued, did>>
             ELSE /\ issued' = issued + 1
                  /\ did' = did \cup {"fresh"}
                  /\ IF o = "OSError"
                     THEN /\ self_tokens' = tokens
                          /\ file_tokens' = file_tokens
                          /\ AuthRaise(o)
                     ELSE /\ SaveTokens(tokens)
                          /\ auth_pc' = AfterFresh[auth_pc]
                          /\ UNCHANGED auth_raised
    /\ UNCHANGED stored
    /\ UNCHANGED besideAuth

\* Lines 89-90: without a refresh token the authorization is run (again).
TransferTokens ==
    /\ auth_pc = "transfer_tokens"
    /\ auth_pc' = IF HasRefreshToken(self_tokens) THEN "expiry" ELSE "fresh_norefresh"
    /\ UNCHANGED <<stored, file_tokens, self_tokens, issued, did, auth_raised>>
    /\ UNCHANGED besideAuth

\* Lines 95-96: the auto-refresh test.
Expiry ==
    /\ auth_pc = "expiry"
    /\ auth_pc' = IF NeedsRefresh(self_tokens) THEN "refresh" ELSE "build"
    /\ UNCHANGED <<stored, file_tokens, self_tokens, issued, did, auth_raised>>
    /\ UNCHANGED besideAuth

RefreshOutcomes == {"none", "AuthAPIError", "OSError"}

\* _refresh_tokens: the refresh token is exchanged, the entry updated in place
\* and saved; anything that fails on the way leads to a fresh authorization.
RefreshTokens ==
    /\ auth_pc = "refresh"
    /\ IF ~HasRefreshToken(self_tokens)
       THEN /\ auth_pc' = "fresh_fallback"
            /\ UNCHANGED <<self_tokens, file_tokens, issued, did>>
       ELSE \E o \in RefreshOutcomes :
              LET tokens == TokenDict("transfer", TRUE, issued + 1, NewExpiry)
              IN  IF o = "AuthAPIError"
                  THEN /\ did' = did \cup {"refresh_failed"}
                       /\ auth_pc' = "fresh_fallback"
                       /\ UNCHANGED <<self_tokens, file_tokens, issued>>
                  ELSE IF o = "OSError"
                  THEN /\ did' = did \cup {"refresh_failed"}
                       /\ issued' = issued + 1
                       /\ self_tokens' = tokens
                       /\ file_tokens' = file_tokens
                       /\ auth_pc' = "fresh_fallback"
                  ELSE /\ did' = did \cup {"refresh"}
                       /\ issued' = issued + 1
                       /\ SaveTokens(tokens)
                       /\ auth_pc' = "build"
    /\ UNCHANGED <<stored, auth_raised>>
    /\ UNCHANGED besideAuth

\* Lines 100-107: the authorizer takes transfer_tokens['refresh_token'] (a
\* KeyError without it) and the client is returned.
BuildClient ==
    /\ auth_pc = "build"
    /\ IF self_tokens.refresh_token
       THEN auth_pc' = "returned" /\ UNCHANGED auth_raised
       ELSE AuthRaise("KeyError")
    /\ UNCHANGED <<stored, file_tokens, self_tokens, issued, did>>
    /\ UNCHANGED besideAuth

NextAuth ==
    \/ LoadTokens
    \/ GetFreshTokens
    \/ TransferTokens
    \/ Expiry
    \/ RefreshTokens
    \/ BuildClient

SpecAuth == InitUpload /\ [][NextAuth]_vars

\* ------------------------------------------------------------ observations

\* read_recon has returned to run_log.
Returned == pc = "returned"
\* It returned the three cross-sections.
Succeeded == Returned /\ Len(recon) = 3
\* The try block got past the index resolution.
IndicesResolved == pc \in {"depth", "scan", "returned"} /\ w > 0
\* The listing held at least one tile name.
Listed == pc \in {"depth", "scan", "returned"} /\ exc # "EmptyTileSet"

\* Numeric suffix of the lexically first / last tile name of the directory.
FirstSuffix(d) == ParseSuffix(SortedNames(DirNames(d))[1])
LastSuffix(d)  == ParseSuffix(SortedNames(DirNames(d))[Cardinality(DirNames(d))])

\* The midpoint default of the specification: extent // 2 for a sentinel, the
\* caller's value otherwise.
Expected(arg, extent) == IF arg = Sentinel THEN extent \div 2 ELSE arg

\* ------------------------------------------------------------------ claims

\* C1: for a gap-free tile set numbered z_start .. z_end-1 and in-range
\* idx/idy, the sections read_recon returns have, for every k with
\* 0 <= k < z_end - z_start, row k of the y-section equal to row idy of tile
\* z_start + k and row k of the x-section equal to column idx of that tile;
\* no row is left at its zero initial value. Stated for the regular case of
\* the claim: square tiles as wide as the sections, listed in sorted order.
C1_SectionsFollowTiles ==
    ( /\ Succeeded
      /\ dataset.gap = -1
      /\ dataset.rows = dataset.cols /\ dataset.cols = w
      /\ z_start = dataset.zs /\ z_end = dataset.zs + dataset.n
      /\ args.idx < dataset.cols /\ args.idy < dataset.rows )
    => \A k \in 0..(z_end - z_start - 1) :
          /\ k < Len(recon[2])
          /\ recon[2][k + 1] = TileRow(dataset, z_start + k, args.idy)
          /\ k < Len(recon[1])
          /\ recon[1][k + 1] = TileCol(dataset, z_start + k, args.idx)

\* C2: z_start is the numeric suffix of the lexically first tile name, z_end
\* that of the lexically last one plus one, and the stacking height is
\* z_end - z_start, whatever order the directory listing came in and whether
\* or not an intermediate suffix is missing. Stated for the calls that return
\* three cross-sections.
C2_RangeFromSortedNames ==
    Succeeded
    => /\ z_start = FirstSuffix(dataset)
       /\ z_end = LastSuffix(dataset) + 1
       /\ height = LastSuffix(dataset) + 1 - FirstSuffix(dataset)

\* C3: with double field of view off, the binning factor read_recon computes
\* is raw_width // probe_width, probe_width being the number of columns of the
\* first tile, for tiles of any height. Stated for the calls that return
\* three cross-sections.
C3_BinningFromProbeWidth ==
    (Succeeded /\ ~double_fov)
    => binning_rec = meta_width \div dataset.cols

\* C4: whenever read_recon returns three cross-sections, binning_rec >= 1, the
\* in-plane width is > 0 and the stacking height is > 0; and if the probe
\* tile's width is 0 or exceeds the raw width, read_recon returns no
\* cross-section.
C4_GeometryConsistent ==
    /\ Succeeded => (binning_rec >= 1 /\ w > 0 /\ height > 0)
    /\ (Returned /\ Listed /\ (dataset.cols = 0 \/ dataset.cols > meta_width))
       => recon = <<>>

\* C5: for each of idx, idy, idz independently, a sentinel is replaced by
\* extent // 2 of its axis (stacking height for idz, in-plane width for idx and
\* idy) and a value >= 0 is used exactly as the caller passed it.
C5_SentinelOrOverride ==
    (IndicesResolved /\ fileNo = 1)
    => /\ args.idz = Expected(request.idz, height)
       /\ args.idy = Expected(request.idy, w)
       /\ args.idx = Expected(request.idx, w)

\* C6: the z cross-section read_recon returns is exactly the content of the
\* tile whose numeric suffix equals idz; if no tile of the directory carries
\* the suffix idz, read_recon fails with a tile-not-found error and returns no
\* cross-section.
C6_DepthPlaneIsTileIdz ==
    /\ Succeeded
       => (args.idz \in Suffixes(dataset) /\ recon[3] = Tile(dataset, args.idz))
    /\ (Returned /\ IndicesResolved /\ args.idz \notin Suffixes(dataset))
       => (recon = <<>> /\ exc = "TileNotFound")

\* C6 witness: a call returned the depth plane of a directory whose first tile
\* is not tile 0.
C6_Witness ==
    /\ Succeeded
    /\ dataset.zs = 1 /\ dataset.rows = 2 /\ dataset.cols = 2
    /\ recon[3] = Tile(dataset, args.idz)

\* C7: if idx or idy is greater than or equal to the tile's extent along the
\* axis it indexes (columns for idx, rows for idy), read_recon returns no
\* cross-section.
C7_OutOfRangeIndexFails ==
    ( /\ Returned /\ IndicesResolved
      /\ (args.idx >= dataset.cols \/ args.idy >= dataset.rows) )
    => recon = <<>>

\* C8: the result holds either no or exactly three cross-sections, and it
\* holds none when a tile read failed, however many section rows the scan had
\* filled before.
C8_AllOrNothing ==
    /\ Len(recon) \in {0, 3}
    /\ (Returned /\ exc # "none") => recon = <<>>

\* C8 witness: a tile read of the scan failed after a row had been copied.
C8_Witness ==
    /\ Returned
    /\ exc \in {"CorruptTile", "TileNotFound"}
    /\ j > z_start
    /\ y # <<>> /\ y[1] = TileRow(dataset, z_start, args.idy)
    /\ recon = <<>>

C10_IndicesIndependentOfEarlierFiles ==
    IndicesResolved
    => args = IF impl = "2bm"
              THEN [idz |-> Resolve2BM(request.idz, h),
                    idy |-> Resolve2BM(request.idy, w),
                    idx |-> Resolve2BM(request.idx, w)]
              ELSE [idz |-> ResolveReads(request.idz, h),
                    idy |-> ResolveReads(request.idy, w),
                    idx |-> ResolveReads(request.idx, w)]

\* The two calls saw the same files: a tile one call could not decode is the
\* tile the other call could not decode.
SameStorage ==
    (first.exc = "CorruptTile" \/ exc = "CorruptTile")
    => (first.exc = exc /\ first.stopped = Stopped)

\* C11: a second call of read_recon with the same arguments on the unmodified
\* directory returns what the first call returned: the same three
\* cross-sections, element for element, and the same binning_rec.
C11_SecondCallSameResult ==
    (Returned /\ first.called /\ SameStorage)
    => (recon = first.recon /\ ReturnedBinning = first.binning_rec)

\* C11 witness: both calls of the 2-BM reader, entered with idz left at the
\* sentinel, returned the same sections of a stack of two or more tiles.
C11_Witness ==
    /\ Succeeded /\ first.called
    /\ impl = "2bm" /\ request.idz = Sentinel
    /\ Len(recon[1]) >= 2
    /\ first.recon = recon

\* C12 as stated: when a suffix strictly between the first and the last tile
\* is missing (and nothing else goes wrong), read_recon returns three
\* cross-sections whose sections have one row per tile present.
C12_GapGivesShorterSections ==
    ( /\ Returned /\ dataset.gap # -1
      /\ args.idz \in Suffixes(dataset)
      /\ exc \notin {"CorruptTile", "ZeroDivisionError", "IndexOutOfRange", "ShapeMismatch"} )
    => ( /\ Succeeded
         /\ Len(recon[1]) = Cardinality(Suffixes(dataset))
         /\ Len(recon[2]) = Cardinality(Suffixes(dataset)) )

\* C12 amended: when a suffix strictly between the first and the last tile is
\* missing, TomoLog2BM.read_recon returns no cross-section; if nothing failed
\* before, it is the scan's read of the missing tile that fails.
C12_GapFails ==
    (Returned /\ dataset.gap # -1)
    => ( /\ recon = <<>>
         /\ exc # "none"
         /\ (exc = "TileNotFound" /\ z # <<>>) => j = dataset.gap )

\* C12 witness: the scan filled the rows of the tiles before the gap and then
\* failed on the missing tile.
C12_Witness ==
    /\ Returned /\ dataset.gap # -1
    /\ exc = "TileNotFound" /\ j = dataset.gap /\ j > z_start
    /\ y[1] = TileRow(dataset, z_start, args.idy)
    /\ recon = <<>>

\* C13: when double field of view is signalled (sample_in_x # 0),
\* TomoLog2BM.read_recon uses binning_rec = 1 whatever the probe tile's size
\* and an in-plane width of exactly twice the raw width; a successful call
\* records binning 1.
C13_DoubleFovDoublesWidth ==
    /\ (IndicesResolved /\ double_fov)
       => (binning_rec = 1 /\ width = 2 * meta_width /\ w = 2 * meta_width)
    /\ (Succeeded /\ double_fov) => self_binning_rec = 1

\* C13 witness: a double-FOV call succeeded on tiles whose size alone would
\* have given binning 2.
C13_Witness ==
    /\ Succeeded /\ double_fov
    /\ dataset.rows = 1 /\ meta_width = 2
    /\ w = 4 /\ self_binning_rec = 1

\* C14: on success (double field of view off) the row section has shape
\* (z_end - z_start, raw_width // binning_rec) and the column section has
\* shape (z_end - z_start, rows of a tile); tiles whose height differs from
\* their width are assembled without a shape error.
C14_SectionShapes ==
    /\ (Succeeded /\ ~double_fov)
       => ( /\ Len(recon[2]) = z_end - z_start
            /\ \A k \in 1..Len(recon[2]) : Len(recon[2][k]) = meta_width \div binning_rec
            /\ Len(recon[1]) = z_end - z_start
            /\ \A k \in 1..Len(recon[1]) : Len(recon[1][k]) = dataset.rows )
    /\ (Returned /\ dataset.rows # dataset.cols /\ dataset.cols <= meta_width)
       => exc # "ShapeMismatch"

\* The directory holds no entry whose name ends in a recognised extension.
NoTileEntry(d) == \A nm \in DirNames(d) : ~IsTiff(nm)

\* C15: when the tile directory holds no entry with a recognised tile
\* extension, read_recon fails on the empty tile list before any tile is read
\* and before any index is computed: it returns no cross-section and leaves
\* binning_rec and the caller's idx/idy/idz as they were before the call.
C15_EmptyTileSetFailsEarly ==
    (Returned /\ fileNo = 1 /\ NoTileEntry(dataset))
    => ( /\ exc = "EmptyTileSet"
         /\ recon = <<>>
         /\ fname_tmp = NoName /\ z = <<>> /\ x = <<>> /\ y = <<>>
         /\ args = request
         /\ ReturnedBinning = -1 )

\* C15 witness: a call on a directory whose only entry is not a recognised
\* tile returned with the caller's sentinel still in place.
C15_Witness ==
    /\ Returned /\ fileNo = 1
    /\ DirNames(dataset) # {} /\ NoTileEntry(dataset)
    /\ exc = "EmptyTileSet"
    /\ request.idz = Sentinel /\ args.idz = Sentinel

\* upload_file has ended, by a return or by an exception.
UploadDone == up_pc = "done"
\* The URLs upload_file can build.
Urls == {<<GLOBUS_BASE_URL, sub, Filename(f)>> : sub \in Subpaths, f \in LocalFiles}

\* What upload_file does whatever the exception: nothing is loaded, started or
\* submitted for a missing file, an Exception inside the try block gives None,
\* and a URL is the one of the sub-path and file name, built after
\* submit_transfer returned.
UploadContract ==
    /\ ~file_exists => (http_url = None /\ touched = {} /\ up_raised = "none")
    /\ (up_exc # "none" /\ IsException(up_exc))
       => (http_url = None /\ up_raised = "none")
    /\ http_url # None
       => ( /\ "submit" \in touched /\ up_exc = "none"
            /\ http_url = <<GLOBUS_BASE_URL, remote_subpath, Filename(local_file)>> )
    /\ up_raised = "none" => http_url \in {None} \cup Urls

\* C16 as stated: upload_file never propagates an exception and returns either
\* an HTTP URL or None (None without loading tokens, starting an authorization
\* flow or submitting a transfer when the local file does not exist, None when
\* authentication or submission raises, the URL only after submit_transfer
\* returned).
C16_UploadNeverRaises ==
    UploadDone => (up_raised = "none" /\ UploadContract)

\* C16 amended: upload_file propagates no exception that derives from
\* Exception; a KeyboardInterrupt at the authorization prompt leaves it.
\* Otherwise it returns an HTTP URL or None as stated.
C16_UploadCatchesExceptions ==
    UploadDone
    => ( /\ UploadContract
         /\ up_raised # "none"
            => (up_raised = "KeyboardInterrupt" /\ "auth_flow" \in touched) )

\* C16 witness: the transfer submission raised and upload_file returned None.
C16_Witness ==
    /\ UploadDone /\ file_exists
    /\ "submit" \in touched /\ up_exc = "GlobusAPIError"
    /\ up_raised = "none" /\ http_url = None

\* The call failed after the index resolution, on a tile read or on an index.
FailedAfterResolution ==
    /\ Returned /\ IndicesResolved
    /\ exc \in {"TileNotFound", "IndexOutOfRange", "CorruptTile"}

\* C17: if read_recon fails after it has resolved the indices (depth-plane
\* tile missing, out-of-range index, unreadable tile), args.idx, args.idy and
\* args.idz still hold the values the caller passed and the binning the caller
\* sees is the one from before the call (shown on ".tiff" directories).
C17_FailureLeavesArgs ==
    (FailedAfterResolution /\ fileNo = 1 /\ dataset.ext = "tiff")
    => (args = request /\ ReturnedBinning = -1)

\* C18: with idz left at the sentinel, the idz read_recon defaults to is the
\* suffix of a tile of a gap-free set, z_start <= idz < z_end, also when the
\* first suffix is greater than 0 (shown on ".tiff" directories).
C18_DefaultIdzInsideRange ==
    ( /\ IndicesResolved /\ fileNo = 1
      /\ request.idz = Sentinel /\ dataset.gap = -1 /\ dataset.ext = "tiff" )
    => (z_start <= args.idz /\ args.idz < z_end)

\* C19: for a directory whose tiles all carry one recognised extension, the
\* listing is not empty and no read of a tile the listing found fails for
\* want of the file.
C19_ReadsOpenListedNames ==
    ( /\ Returned /\ dataset.n >= 1 /\ dataset.gap = -1
      /\ args.idz \in Suffixes(dataset) )
    => exc \notin {"EmptyTileSet", "TileNotFound"}

\* C20: a successful scan has opened the tile of every index j of
\* z_start .. z_end-1 once, in increasing order, and has taken row idy and
\* column idx from that read: row k of both sections comes from tile
\* z_start + k, and the loop ended at z_end.
C20_ScanReadsEachTileOnce ==
    Succeeded
    => ( /\ j = z_end
         /\ Len(recon[1]) = z_end - z_start /\ Len(recon[2]) = z_end - z_start
         /\ \A k \in 1..(z_end - z_start) :
              recon[2][k] = Broadcast(TileRow(dataset, z_start + k - 1, args.idy), w) )

\* The reader's run_log is over for the current data file.
SlideDone == run_pc \in {"next", "end", "aborted"} /\ fileNo > 0

\* The slide of the current data file holds `item`.
Published(item) == \E i \in 1..Len(published) : published[i] = item

\* C21: once a data file's run_log is over, its slide holds the reconstruction
\* image exactly when read_recon returned three cross-sections; without them
\* the projection and its label are on the slide, the 'Reconstruction' label
\* is not, and run_log goes on (to the next file of the directory or to its
\* end) instead of aborting.
C21_ReconImageIffThreeSections ==
    SlideDone =>
        /\ Published("reconstruction image") <=> Len(recon) = 3
        /\ Len(recon) # 3 =>
              /\ Published("projection image")
              /\ Published("Micro-CT projection")
              /\ ~Published("Reconstruction")
              /\ run_raised = "none"
              /\ run_pc \in {"next", "end"}

\* C28: on a beamline other than 32-id the resolution handed to the
\* reconstruction plot is the meta resolution times the detector binning times
\* binning_rec, each factor once, although the projection was plotted before.
C28_ReconResolutionBinnedOnce ==
    (SlideDone /\ impl = "reads" /\ Len(recon) = 3) =>
        recon_resolution = meta_resolution * binning * ReturnedBinning

\* C29: the configuration written at the end of run_log holds the file_name
\* and the idx/idy/idz the user supplied, also after a directory of data files
\* was processed.
C29_ConfigKeepsUserInput ==
    config.written =>
        /\ config.file_name = user_file_name
        /\ config.idx = request.idx
        /\ config.idy = request.idy
        /\ config.idz = request.idz

\* The run_tomolog_cli threads that were started and have not returned.
ActiveWorkers == {t \in Workers : wpc[t] \notin {"unused", "returned"}}

\* C22: at most one run_tomolog_cli thread and at most one tomolog subprocess
\* are active at any time, and app_state['current_process'] is the subprocess
\* that runs.
C22_AtMostOneWorker ==
    /\ Cardinality(ActiveWorkers) <= 1
    /\ Cardinality(running) <= 1
    /\ \A p \in running : current_process = p

\* C23: once a Stop handler has completed (and Run was not clicked again), no
\* tomolog subprocess runs that was not sent terminate: none that the handler
\* missed, none that a worker started afterwards.
C23_StopReachesEverySubprocess ==
    stop_done => \A p \in running : p \in sent_terminate

\* C24: the status 'All files completed successfully' is only there when a
\* worker went through its whole file list and every subprocess of it returned
\* 0 (shown on the sessions with a single click on Run).
C24_SuccessStatusMeansSuccess ==
    (status = "All files completed successfully" /\ wpc[2] = "unused") =>
        \E t \in Workers :
            /\ wpc[t] \in {"finally", "returned"}
            /\ file_i[t] = Len(file_list[t])
            /\ ~any_failed[t]

\* C25: when every run_tomolog_cli that was started has returned, the GUI is
\* idle: process_running is False, current_process is None and the status is
\* a terminal one, not 'Running tomolog...'.
C25_IdleAfterReturn ==
    (ActiveWorkers = {} /\ \E t \in Workers : wpc[t] = "returned") =>
        /\ process_running = FALSE
        /\ current_process = None
        /\ status \in TerminalStatus

\* C26: whenever no add_log call is under way, app_state['logs'] holds the
\* messages of the last min(n, 50) calls in call order, never more than 50,
\* whichever threads made the calls.
C26_LogsHoldLastMessages ==
    (\A t \in LogThreads : lpc[t] = "idle") =>
        /\ logs = LastLogs(appended)
        /\ Len(logs) <= MaxLogs

\* The token file held an expiry less than 300 seconds ahead when get_client
\* was entered.
StoredExpiresSoon ==
    /\ stored.state = "json"
    /\ stored.tokens.kind = "transfer"
    /\ stored.tokens.expires_at_seconds # NoExpiry
    /\ stored.tokens.expires_at_seconds - Now < Buffer

\* C27: when get_client returns a client, self.tokens holds a refresh token
\* for transfer.api.globus.org and is what the token file holds; and when the
\* stored expiry was less than 300 seconds ahead, the token was refreshed, or
\* freshly authorized because the refresh failed or no refresh token was
\* stored.
C27_ClientTokensSavedAndRefreshed ==
    auth_pc = "returned" =>
        /\ HasRefreshToken(self_tokens)
        /\ file_tokens = TokenFile("json", self_tokens)
        /\ StoredExpiresSoon =>
              \/ "refresh" \in did
              \/ /\ "fresh" \in did
                 /\ "refresh_failed" \in did \/ ~HasRefreshToken(stored.tokens)

\* A client returned after the refresh of a stored token that was about to
\* expire.
C27_Witness ==
    /\ auth_pc = "returned"
    /\ StoredExpiresSoon
    /\ stored.tokens.expires_at_seconds > Now
    /\ did = {"refresh"}
    /\ self_tokens.access_token = 1

====
